---- MODULE Spec2Model ----
(***************************************************************************)
(* A model of leftwm's src/utils/child_process.rs: the Children registry   *)
(* (a HashMap<u32, Child>), the processes its handles refer to, the        *)
(* SIGCHLD flag hook, the desktop-file parser and the autostart batch.     *)
(***************************************************************************)
EXTENDS Integers, Sequences, FiniteSets, TLC

(***************************************************************************)
(* Bounds of the model.                                                    *)
(***************************************************************************)
NumHandles == 2
NumPids == 2
NumRegs == 2
MaxIter == 2
MaxSignals == 3

Handles == 1..NumHandles
Pids == 1..NumPids
Regs == 1..NumRegs

\* The absent value of HashMap::get / HashMap::insert (Option::None).
None == 0

VARIABLES
    proc,        \* proc[h]: the operating-system process behind Child h
    pid,         \* pid[h]: Child::id() of h, None before the spawn
    waited,      \* the Childs whose exit status has been collected (Child.status)
    queryFails,  \* the Childs whose waitpid query currently fails
    free,        \* the Childs the caller holds outside every registry
    reg,         \* reg[r]: Children.inner of registry r, a map pid -> Child
    last,        \* the operation that produced this state, with its inputs
    flag,        \* the AtomicBool handed to register_child_hook
    hooked,      \* whether the SIGCHLD handler is registered
    sigPending,  \* whether a SIGCHLD is pending delivery
    cpc,         \* where the consumer of the flag stands in its loop
    sigs,        \* how many times the handler ran since the flag was last cleared
    notice,      \* notice[h]: whether the SIGCHLD of h's exit is raised, delivered
    files,       \* the descriptor files at hand: whether each opens, and its text
    parsed,      \* what parse_desktop_file returned for files[1]
    listing,     \* how autostart's directory lookup ended
    bpc,         \* where the parser or autostart stands
    idx,         \* the file autostart boots next
    outcome,     \* outcome[f]: what boot_desktop_file did for files[f]
    execValue,   \* the Exec value handed to sanitize_exec
    ran,         \* the command text the shell ran for it
    dir,         \* the path handed to list_desktop_files and what is there
    listed,      \* what list_desktop_files returned
    theme,       \* what boot_current_theme finds on the system
    themeRes     \* what boot_current_theme returned

regVars == <<proc, pid, waited, queryFails, free, reg>>
flagVars == <<flag, hooked, sigPending, cpc, sigs, notice>>
textVars == <<files, parsed, listing, bpc, idx, outcome>>
toolVars == <<execValue, ran, dir, listed, theme, themeRes>>
vars == <<regVars, last, flagVars, textVars, toolVars>>

----------------------------------------------------------------------------
(***************************************************************************)
(* Pure helpers.                                                           *)
(***************************************************************************)
EmptyMap == [p \in Pids |-> None]

\* Children::len: the number of keys of the map.
ChildrenLen(m) == Cardinality({p \in Pids : m[p] # None})

\* Children::is_empty.
IsEmpty(m) == ChildrenLen(m) = 0

\* The Childs a map holds.
Held(m) == {m[p] : p \in {q \in Pids : m[q] # None}}

\* All the finite sequences without repetition of at most n elements of S:
\* an iterator yields each (moved) Child once.
SeqsOf(S, n) ==
    UNION {{s \in [1..k -> S] : \A i, j \in 1..k : i # j => s[i] # s[j]} : k \in 0..n}

\* HashMap::insert(key, value): the entry under key is replaced.
HashMapInsert(m, k, v) == [m EXCEPT ![k] = v]

\* HashMap::extend over an iterator of (id, child) pairs: one insert per item,
\* in iteration order.
RECURSIVE HashMapExtend(_, _)
HashMapExtend(m, s) ==
    IF s = <<>> THEN m
    ELSE HashMapExtend(HashMapInsert(m, pid[Head(s)], Head(s)), Tail(s))

\* Child::try_wait: the cached status if there is one, else waitpid(WNOHANG):
\* "err" when the query fails, "exited" when it returns the status, "running"
\* when the process has not exited.
TryWait(h) ==
    IF h \in waited THEN "exited"
    ELSE IF h \in queryFails THEN "err"
    ELSE IF proc[h] = "exited" THEN "exited"
    ELSE "running"

\* Faulty variant of TryWaitReturns: wait() for try_wait(), the call returns
\* only once the process has exited or the query has failed.
TryWaitReturnsOnExit(h) == h \in waited \/ h \in queryFails \/ proc[h] = "exited"

\* Whether Child::try_wait returns to its caller: it never blocks, whatever
\* the process is doing.
TryWaitReturns(h) == TRUE

\* Faulty variant of RetainChild: is_some for is_none, a running process is dropped.
RetainChildDropsRunning(h) ==
    LET res == TryWait(h) IN
    IF res = "err" THEN TRUE ELSE res = "exited"

\* Faulty variant of RetainChild: map_or(false, ..), a failed check drops the handle.
RetainChildDropsOnError(h) ==
    LET res == TryWait(h) IN
    IF res = "err" THEN FALSE ELSE res = "running"

\* The closure of reap's retain: try_wait().map_or(true, |ret| ret.is_none()).
RetainChild(h) ==
    LET res == TryWait(h) IN
    IF res = "err" THEN TRUE ELSE res = "running"

\* Faulty variant of ReapMap: one call removes a single entry, the one of the
\* lowest identifier among those the closure rejects.
ReapMapOneAtATime(m) ==
    LET gone == {p \in Pids : m[p] # None /\ ~RetainChild(m[p])} IN
    [p \in Pids |-> IF p \in gone /\ \A q \in gone : p <= q THEN None ELSE m[p]]

\* HashMap::retain with that closure.
ReapMap(m) == [p \in Pids |-> IF m[p] # None /\ RetainChild(m[p]) THEN m[p] ELSE None]

\* Faulty variant of InsertMap: entry(id).or_insert(child), the old handle is kept.
InsertMapKeepsOld(m, h) == IF m[pid[h]] = None THEN HashMapInsert(m, pid[h], h) ELSE m

\* Children::insert: the map after the call.
InsertMap(m, h) == HashMapInsert(m, pid[h], h)

\* Children::insert: the value returned, Option::is_none of the replaced entry.
InsertRet(m, h) == m[pid[h]] = None

\* Faulty variant of MergeMap: on an id collision the entry of self wins.
MergeMapSelfWins(a, b) == [p \in Pids |-> IF a[p] # None THEN a[p] ELSE b[p]]

\* Children::merge: extend self.inner with the entries of reaper.inner.
MergeMap(a, b) == [p \in Pids |-> IF b[p] # None THEN b[p] ELSE a[p]]

\* Faulty variant of MergeSource: merge borrows the other registry and copies its
\* entries, which stay where they were.
MergeSourceKept(b) == b

\* What remains of the registry passed by value to merge: it is moved into
\* the call and consumed there.
MergeSource(b) == EmptyMap

\* FromIterator for Children: collect the (id, child) pairs into a new map.
FromIterMap(s) == HashMapExtend(EmptyMap, s)

\* Extend for Children.
ExtendMap(m, s) == HashMapExtend(m, s)

\* A try_wait that returned the exit status has collected it.
Collected(hs) == {h \in hs : TryWait(h) = "exited"}

\* Faulty variant of DropChildren: dropping a Child kills its process.
DropChildrenKills(ps, hs) ==
    [h \in Handles |-> IF h \in hs /\ ps[h] = "running" THEN "exited" ELSE ps[h]]

\* A Child that is dropped (overwritten, removed or discarded with its map):
\* std's Child has no Drop implementation, the process is left as it is.
DropChildren(ps, hs) == ps

\* The record of the registry operation that produced the current state: its
\* arguments, its return value, and the registries, the processes and the
\* outcome of every status check as they were when it was called.
Op(name, r, r2, hs, ret) ==
    [op |-> name, r |-> r, r2 |-> r2, hs |-> hs, ret |-> ret,
     preReg |-> reg, preProc |-> proc,
     tw |-> [h \in Handles |-> TryWait(h)]]

\* The registry the consumer of the flag reaps.
Tracked == 1

\* The record of a step that is no registry operation.
NoOp ==
    [op |-> "none", r |-> None, r2 |-> None, hs |-> <<>>, ret |-> FALSE,
     preReg |-> [r \in Regs |-> EmptyMap],
     preProc |-> [h \in Handles |-> "unspawned"],
     tw |-> [h \in Handles |-> "running"]]

----------------------------------------------------------------------------
(***************************************************************************)
(* The environment of the registry: processes are spawned, exit, and have  *)
(* their status collected by the caller that still holds the Child.        *)
(***************************************************************************)
\* The Childs somebody still holds: the caller, or an entry of a registry.
Owned == free \cup UNION {Held(reg[r]) : r \in Regs}

\* The operating system hands out a process id again only after the exit
\* status of its previous owner was collected. Process ids are interchangeable:
\* a new process gets an id used before or the smallest id never used.
PidAvailable(p) ==
    /\ \A h \in Handles : pid[h] = p => h \in waited
    /\ \A q \in Pids : q < p => \E h \in Handles : pid[h] = q

Spawn(p) ==
    /\ \E h \in Handles :
        /\ proc[h] = "unspawned"
        /\ \A g \in Handles : g < h => proc[g] # "unspawned"
        /\ PidAvailable(p)
        /\ proc' = [proc EXCEPT ![h] = "running"]
        /\ pid' = [pid EXCEPT ![h] = p]
        /\ free' = free \cup {h}
        /\ last' = NoOp
    /\ UNCHANGED <<waited, queryFails, reg>>
    /\ UNCHANGED flagVars
    /\ UNCHANGED textVars
    /\ UNCHANGED toolVars

\* A process exits; the kernel raises SIGCHLD, which is seen when a handler
\* is registered (pending signals of one kind are not counted). (The exit of a process whose Child was dropped is not
\* observable by any operation and is left out.)
Exit(h) ==
    /\ h \in Owned
    /\ proc[h] = "running"
    /\ proc' = [proc EXCEPT ![h] = "exited"]
    /\ sigPending' = (sigPending \/ hooked)
    /\ notice' = IF hooked /\ h \in Held(reg[Tracked])
                 THEN [notice EXCEPT ![h] = "raised"] ELSE notice
    /\ last' = NoOp
    /\ UNCHANGED <<pid, waited, queryFails, free, reg>>
    /\ UNCHANGED <<flag, hooked, cpc, sigs>>
    /\ UNCHANGED textVars
    /\ UNCHANGED toolVars

\* The caller polls a Child it still holds.
CallerTryWait(h) ==
    /\ h \in free
    /\ h \notin waited
    /\ TryWait(h) = "exited"
    /\ waited' = waited \cup {h}
    /\ last' = NoOp
    /\ UNCHANGED <<proc, pid, queryFails, free, reg>>
    /\ UNCHANGED flagVars
    /\ UNCHANGED textVars
    /\ UNCHANGED toolVars

\* The status query of a tracked Child starts or stops failing.
QueryBreaks(h) ==
    /\ \E r \in Regs : h \in Held(reg[r])
    /\ h \notin waited
    /\ queryFails' = IF h \in queryFails THEN queryFails \ {h} ELSE queryFails \cup {h}
    /\ last' = NoOp
    /\ UNCHANGED <<proc, pid, waited, free, reg>>
    /\ UNCHANGED flagVars
    /\ UNCHANGED textVars
    /\ UNCHANGED toolVars

----------------------------------------------------------------------------
(***************************************************************************)
(* The operations of Children.                                             *)
(***************************************************************************)
\* Children::new / dropping a registry: the slot holds an empty map again.
Discard(r) ==
    /\ reg' = [reg EXCEPT ![r] = EmptyMap]
    /\ proc' = DropChildren(proc, Held(reg[r]))
    /\ last' = Op("discard", r, None, <<>>, FALSE)
    /\ UNCHANGED <<pid, waited, queryFails, free>>
    /\ UNCHANGED flagVars
    /\ UNCHANGED textVars
    /\ UNCHANGED toolVars

FromIter(r, s) ==
    /\ IsEmpty(reg[r])
    /\ reg' = [reg EXCEPT ![r] = FromIterMap(s)]
    /\ free' = free \ {s[i] : i \in 1..Len(s)}
    /\ proc' = DropChildren(proc, {s[i] : i \in 1..Len(s)} \ Held(FromIterMap(s)))
    /\ last' = Op("from_iter", r, None, s, FALSE)
    /\ UNCHANGED <<pid, waited, queryFails>>
    /\ UNCHANGED flagVars
    /\ UNCHANGED textVars
    /\ UNCHANGED toolVars

Insert(r, h) ==
    /\ h \in free
    /\ reg' = [reg EXCEPT ![r] = InsertMap(reg[r], h)]
    /\ free' = free \ {h}
    /\ proc' = DropChildren(proc, Held(reg[r]) \ Held(InsertMap(reg[r], h)))
    /\ last' = Op("insert", r, None, <<h>>, InsertRet(reg[r], h))
    /\ UNCHANGED <<pid, waited, queryFails>>
    /\ UNCHANGED flagVars
    /\ UNCHANGED textVars
    /\ UNCHANGED toolVars

Extend(r, s) ==
    /\ reg' = [reg EXCEPT ![r] = ExtendMap(reg[r], s)]
    /\ free' = free \ {s[i] : i \in 1..Len(s)}
    /\ proc' = DropChildren(proc,
                  (Held(reg[r]) \cup {s[i] : i \in 1..Len(s)}) \ Held(ExtendMap(reg[r], s)))
    /\ last' = Op("extend", r, None, s, FALSE)
    /\ UNCHANGED <<pid, waited, queryFails>>
    /\ UNCHANGED flagVars
    /\ UNCHANGED textVars
    /\ UNCHANGED toolVars

Merge(a, b) ==
    /\ a # b
    /\ reg' = [reg EXCEPT ![a] = MergeMap(reg[a], reg[b]), ![b] = MergeSource(reg[b])]
    /\ proc' = DropChildren(proc, Held(reg[a]) \ Held(MergeMap(reg[a], reg[b])))
    /\ last' = Op("merge", a, b, <<>>, FALSE)
    /\ UNCHANGED <<pid, waited, queryFails, free>>
    /\ UNCHANGED flagVars
    /\ UNCHANGED textVars
    /\ UNCHANGED toolVars

\* Children::reap on registry r: retain calls the closure once for every
\* entry, and the call returns when each of these checks has returned.
ReapStep(r) ==
    /\ \A h \in Held(reg[r]) : TryWaitReturns(h)
    /\ reg' = [reg EXCEPT ![r] = ReapMap(reg[r])]
    /\ waited' = waited \cup Collected(Held(reg[r]))
    /\ proc' = DropChildren(proc, Held(reg[r]) \ Held(ReapMap(reg[r])))
    /\ last' = Op("reap", r, None, <<>>, FALSE)
    /\ UNCHANGED <<pid, queryFails, free>>

\* reap called at a place of the caller's choosing.
Reap(r) ==
    /\ ReapStep(r)
    /\ UNCHANGED flagVars
    /\ UNCHANGED textVars
    /\ UNCHANGED toolVars

----------------------------------------------------------------------------
(***************************************************************************)
(* Descriptor files. A text is a sequence of symbols: the characters '=',  *)
(* '#', ' ' and the line feed LF, an undecodable byte BadByte, and words   *)
(* without any of these, each written as one symbol ("Hidden", "k").       *)
(***************************************************************************)
LF == "LF"
BadByte == "?"
Whitespace == {" "}

\* The position of the first c in s, 0 when there is none.
FirstIndex(s, c) ==
    IF \E i \in 1..Len(s) : s[i] = c
    THEN CHOOSE i \in 1..Len(s) : s[i] = c /\ \A j \in 1..(i - 1) : s[j] # c
    ELSE 0

\* BufRead::lines over the opened file: the text split at line feeds, a
\* final line feed opening no further line.
RECURSIVE ReadLines(_)
ReadLines(t) ==
    IF t = <<>> THEN <<>>
    ELSE LET i == FirstIndex(t, LF) IN
         IF i = 0 THEN <<t>>
         ELSE <<SubSeq(t, 1, i - 1)>> \o ReadLines(SubSeq(t, i + 1, Len(t)))

\* Whether an item of the Lines iterator is Ok: the line is valid UTF-8.
DecodeOk(raw) == \A i \in 1..Len(raw) : raw[i] # BadByte

\* str::trim.
RECURSIVE TrimStart(_)
TrimStart(l) == IF l # <<>> /\ Head(l) \in Whitespace THEN TrimStart(Tail(l)) ELSE l

RECURSIVE TrimEnd(_)
TrimEnd(l) ==
    IF l # <<>> /\ l[Len(l)] \in Whitespace THEN TrimEnd(SubSeq(l, 1, Len(l) - 1)) ELSE l

Trim(l) == TrimEnd(TrimStart(l))

\* line.splitn(2, '='): the first item, and the second or the default "".
SplitKey(l) ==
    LET i == FirstIndex(l, "=") IN IF i = 0 THEN l ELSE SubSeq(l, 1, i - 1)

\* Faulty variant of SplitValue: split('=') for splitn(2, '='), the value ends
\* at the next '='.
SplitValueDropsRest(l) ==
    LET i == FirstIndex(l, "=") IN
    IF i = 0 THEN <<>>
    ELSE LET rest == SubSeq(l, i + 1, Len(l))
             j == FirstIndex(rest, "=")
         IN  IF j = 0 THEN rest ELSE SubSeq(rest, 1, j - 1)

SplitValue(l) ==
    LET i == FirstIndex(l, "=") IN IF i = 0 THEN <<>> ELSE SubSeq(l, i + 1, Len(l))

\* HashMap::new().
EmptyEntries == [k \in {} |-> <<>>]

\* Faulty variant of EntriesInsert: entry(key).or_insert(value), the first value stays.
EntriesInsertKeepsFirst(e, k, v) ==
    [x \in DOMAIN e \cup {k} |-> IF x \in DOMAIN e THEN e[x] ELSE v]

\* entries.insert(key, value).
EntriesInsert(e, k, v) == [x \in DOMAIN e \cup {k} |-> IF x = k THEN v ELSE e[x]]

\* The body of parse_desktop_file's loop for one item of the iterator.
ParseLine(e, raw) ==
    IF ~DecodeOk(raw) THEN e
    ELSE LET line == Trim(raw) IN
         IF (line # <<>> /\ Head(line) = "#") \/ line = <<>> THEN e
         ELSE LET key == SplitKey(line)
                  value == SplitValue(line)
              IN  IF key # <<>> THEN EntriesInsert(e, key, value) ELSE e

RECURSIVE ParseLines(_, _)
ParseLines(e, lines) ==
    IF lines = <<>> THEN e ELSE ParseLines(ParseLine(e, Head(lines)), Tail(lines))

\* parse_desktop_file: Err when read_lines cannot open the file, else Ok of
\* the entries of its lines.
ParseDesktopFile(file) ==
    IF ~file.open THEN [ok |-> FALSE, entries |-> EmptyEntries]
    ELSE [ok |-> TRUE, entries |-> ParseLines(EmptyEntries, ReadLines(file.text))]

\* parse_desktop_file was not called.
NotParsed == [ok |-> FALSE, entries |-> EmptyEntries]

\* A file that cannot be opened.
Unreadable == [open |-> FALSE, text |-> <<>>]

\* The keys boot_desktop_file looks up and the value it compares with.
HiddenKey == <<"Hidden">>
ExecKey == <<"Exec">>
TrueValue == <<"true">>

\* The backquote character, written as a symbol of its own.
Backquote == "BACKQUOTE"

\* sanitize_exec: the format! of the command substitution around the value.
SanitizeExec(exec) ==
    <<Backquote, "echo \"">> \o exec
        \o <<"\" | sed 's/%.//' | sed 's/^\\\"//g' | sed 's/\\\" *$//g'", Backquote>>

\* The double-quote character.
DQuote == "\""

\* The words the shell makes of a piece of command text: an unescaped double
\* quote opens or closes a quoted stretch and is removed, a blank outside a
\* quoted stretch ends the word.
RECURSIVE ShWords(_, _, _, _)
ShWords(s, quoted, cur, begun) ==
    IF s = <<>> THEN (IF begun THEN <<cur>> ELSE <<>>)
    ELSE IF Head(s) = DQuote THEN ShWords(Tail(s), ~quoted, cur, TRUE)
    ELSE IF Head(s) = " " /\ ~quoted
         THEN (IF begun THEN <<cur>> ELSE <<>>) \o ShWords(Tail(s), quoted, <<>>, FALSE)
    ELSE ShWords(Tail(s), quoted, Append(cur, Head(s)), TRUE)

\* Whether the quotes of a piece of command text pair up.
QuotesBalanced(s) == Cardinality({i \in 1..Len(s) : s[i] = DQuote}) % 2 = 0

\* echo writes its arguments separated by one blank.
RECURSIVE EchoJoin(_)
EchoJoin(ws) ==
    IF ws = <<>> THEN <<>>
    ELSE IF Len(ws) = 1 THEN Head(ws)
    ELSE Head(ws) \o <<" ">> \o EchoJoin(Tail(ws))

\* echo "{}": what echo writes when the value stands between the two quotes.
EchoOutput(value) == EchoJoin(ShWords(<<DQuote>> \o value \o <<DQuote>>, FALSE, <<>>, FALSE))

\* sed 's/%.//': the first '%' that has a character after it goes, with that
\* character; the command has no g flag.
SedFieldCode(s) ==
    LET at == {i \in 1..(Len(s) - 1) : s[i] = "%"} IN
    IF at = {} THEN s
    ELSE LET i == CHOOSE j \in at : \A k \in at : j <= k
         IN  SubSeq(s, 1, i - 1) \o SubSeq(s, i + 2, Len(s))

\* sed 's/^\"//g': a double quote at the start of the line goes.
SedLeadingQuote(s) == IF s # <<>> /\ Head(s) = DQuote THEN Tail(s) ELSE s

\* sed 's/\" *$//g': a double quote followed by nothing but blanks up to the
\* end of the line goes, with the blanks.
SedTrailingQuote(s) ==
    LET at == {i \in 1..Len(s) : s[i] = DQuote /\ \A k \in (i + 1)..Len(s) : s[k] = " "} IN
    IF at = {} THEN s
    ELSE SubSeq(s, 1, (CHOOSE i \in at : TRUE) - 1)

\* No command text has been handed to the shell.
NotRun == [status |-> "idle", text |-> <<>>]

\* What the shell runs for the command text of sanitize_exec: the output of
\* the pipeline inside the backquotes, or nothing when the quotes of the value
\* leave the text unterminated.
CommandSubstitution(cmd) ==
    LET value == SubSeq(cmd, 3, Len(cmd) - 2) IN
    IF ~QuotesBalanced(value) THEN [status |-> "syntax error", text |-> <<>>]
    ELSE [status |-> "ran",
          text |-> SedTrailingQuote(SedLeadingQuote(SedFieldCode(EchoOutput(value))))]

\* Command::new("sh").arg("-c").arg(args): no stdin or stdout is configured.
ShCommand(args) ==
    [program |-> "sh", args |-> <<<<"-c">>, args>>, stdin |-> "inherit", stdout |-> "inherit"]

NoCommand == [program |-> "", args |-> <<>>, stdin |-> "", stdout |-> ""]

\* Faulty variant of BootDesktopFile: any Hidden key hides the file, whatever its value.
BootDesktopFileAnyHidden(file) ==
    LET p == ParseDesktopFile(file) IN
    IF ~p.ok THEN [spawn |-> FALSE, err |-> "read", command |-> NoCommand]
    ELSE IF HiddenKey \in DOMAIN p.entries
         THEN [spawn |-> FALSE, err |-> "hidden desktop file", command |-> NoCommand]
    ELSE IF ExecKey \in DOMAIN p.entries
         THEN [spawn |-> TRUE, err |-> "",
               command |-> ShCommand(SanitizeExec(p.entries[ExecKey]))]
    ELSE [spawn |-> FALSE, err |-> "could not find Exec key", command |-> NoCommand]

\* boot_desktop_file up to its last line: whether Command::spawn is called,
\* with which command, and the error returned when it is not.
BootDesktopFile(file) ==
    LET p == ParseDesktopFile(file) IN
    IF ~p.ok THEN [spawn |-> FALSE, err |-> "read", command |-> NoCommand]
    ELSE IF HiddenKey \in DOMAIN p.entries /\ p.entries[HiddenKey] = TrueValue
         THEN [spawn |-> FALSE, err |-> "hidden desktop file", command |-> NoCommand]
    ELSE IF ExecKey \in DOMAIN p.entries
         THEN [spawn |-> TRUE, err |-> "",
               command |-> ShCommand(SanitizeExec(p.entries[ExecKey]))]
    ELSE [spawn |-> FALSE, err |-> "could not find Exec key", command |-> NoCommand]

\* Faulty variant of AutostartAdvance: the batch stops at the first file that fails.
AutostartAdvanceAborts(i, launched) == IF launched THEN i + 1 ELSE Len(files) + 1

\* files.iter().filter_map(|file| boot_desktop_file(&file).ok()): an Err is
\* dropped and the iteration goes on with the next file.
AutostartAdvance(i, launched) == i + 1

\* The Childs the filter_map has yielded, in the order of their files.
RECURSIVE Yielded(_)
Yielded(o) ==
    IF o = <<>> THEN <<>>
    ELSE IF Head(o).child # None THEN <<Head(o).child>> \o Yielded(Tail(o))
    ELSE Yielded(Tail(o))

----------------------------------------------------------------------------
RegInit ==
    /\ proc = [h \in Handles |-> "unspawned"]
    /\ pid = [h \in Handles |-> None]
    /\ waited = {}
    /\ queryFails = {}
    /\ free = {}
    /\ reg = [r \in Regs |-> EmptyMap]
    /\ last = NoOp

\* The flag starts false (AtomicBool::new(false)), no handler is registered.
FlagInit ==
    /\ flag = FALSE
    /\ hooked = FALSE
    /\ sigPending = FALSE
    /\ cpc = "poll"
    /\ sigs = 0
    /\ notice = [h \in Handles |-> "none"]

\* No descriptor file is at hand.
TextIdle ==
    /\ files = <<>>
    /\ parsed = NotParsed
    /\ listing = "ok"
    /\ bpc = "idle"
    /\ idx = 0
    /\ outcome = <<>>

\* The extension list_desktop_files looks for.
DesktopExt == "desktop"

\* Faulty variant of ScanEntries: path.is_file() is not asked, a directory
\* named with the extension is listed too.
RECURSIVE ScanEntriesAnyKind(_, _, _)
ScanEntriesAnyKind(es, i, list) ==
    IF i > Len(es) THEN [status |-> "ok", paths |-> list]
    ELSE IF ~es[i].ok THEN [status |-> "err", paths |-> <<>>]
    ELSE ScanEntriesAnyKind(es, i + 1,
             IF es[i].ext = DesktopExt THEN Append(list, <<i>>) ELSE list)

\* The loop over fs::read_dir(dir): an entry that cannot be read ends the
\* function with the error (entry?), a regular file whose extension is
\* "desktop" is pushed, nothing else is, and no entry is descended into.
\* The path of the i-th entry of the directory is <<i>>.
RECURSIVE ScanEntries(_, _, _)
ScanEntries(es, i, list) ==
    IF i > Len(es) THEN [status |-> "ok", paths |-> list]
    ELSE IF ~es[i].ok THEN [status |-> "err", paths |-> <<>>]
    ELSE ScanEntries(es, i + 1,
             IF es[i].kind = "file" /\ es[i].ext = DesktopExt
             THEN Append(list, <<i>>) ELSE list)

\* list_desktop_files: a path that is not a directory gives Ok(vec![]), a
\* directory that cannot be opened gives the error of read_dir.
ListDesktopFiles(d) ==
    IF d.kind = "dir"
    THEN IF d.readable THEN ScanEntries(d.entries, 1, <<>>)
         ELSE [status |-> "err", paths |-> <<>>]
    ELSE [status |-> "ok", paths |-> <<>>]

\* No path has been handed to list_desktop_files, and nothing is returned.
NoDir == [kind |-> "missing", readable |-> TRUE, entries |-> <<>>]
NotListed == [status |-> "idle", paths |-> <<>>]

\* Command::new(&path).stdin(Stdio::null()).stdout(Stdio::null()): the theme
\* script itself, without arguments.
ThemeCommand ==
    [program |-> "themes/current/up", args |-> <<>>, stdin |-> "null", stdout |-> "null"]

\* Faulty variant of BootCurrentThemePlan: a missing script is reported as an error.
BootCurrentThemePlanMissingIsError(t) ==
    IF ~t.configDir THEN [spawn |-> FALSE, status |-> "err", command |-> NoCommand]
    ELSE IF t.up = "file" THEN [spawn |-> TRUE, status |-> "some", command |-> ThemeCommand]
    ELSE [spawn |-> FALSE, status |-> "err", command |-> NoCommand]

\* boot_current_theme up to Command::spawn: the error of the configuration
\* directory is returned first (both ? of the first line), then path.is_file()
\* decides between spawning the script and Ok(None).
BootCurrentThemePlan(t) ==
    IF ~t.configDir THEN [spawn |-> FALSE, status |-> "err", command |-> NoCommand]
    ELSE IF t.up = "file" THEN [spawn |-> TRUE, status |-> "some", command |-> ThemeCommand]
    ELSE [spawn |-> FALSE, status |-> "none", command |-> NoCommand]

\* boot_current_theme has not been called.
NoTheme == [configDir |-> TRUE, up |-> "missing", spawn |-> TRUE]
NotBooted == [status |-> "idle", child |-> None, command |-> NoCommand]

\* None of sanitize_exec, list_desktop_files, boot_current_theme is called.
ToolIdle ==
    /\ execValue = <<>>
    /\ ran = NotRun
    /\ dir = NoDir
    /\ listed = NotListed
    /\ theme = NoTheme
    /\ themeRes = NotBooted

Init == RegInit /\ FlagInit /\ TextIdle /\ ToolIdle

Next ==
    \/ \E p \in Pids : Spawn(p)
    \/ \E h \in Handles : Exit(h)
    \/ \E h \in Handles : CallerTryWait(h)
    \/ \E h \in Handles : QueryBreaks(h)
    \/ \E r \in Regs : Discard(r)
    \/ \E r \in Regs : \E s \in SeqsOf(free, MaxIter) : FromIter(r, s)
    \/ \E r \in Regs : \E h \in Handles : Insert(r, h)
    \/ \E r \in Regs : \E s \in SeqsOf(free, MaxIter) : Extend(r, s)
    \/ \E a \in Regs : \E b \in Regs : Merge(a, b)
    \/ \E r \in Regs : Reap(r)

Spec == Init /\ [][Next]_vars

----------------------------------------------------------------------------
(***************************************************************************)
(* The SIGCHLD flag: register_child_hook installs a handler that stores    *)
(* true into the flag; a consumer polls the flag, clears it and reaps.     *)
(***************************************************************************)
\* Faulty variant of HandlerStore: the handler stores nothing.
HandlerStoreKeeps(f) == f

\* Faulty variant of HandlerStore: the handler flips the flag instead of setting it.
HandlerStoreFlips(f) == ~f

\* What the registered handler stores into the flag, whose value was f.
HandlerStore(f) == TRUE

\* register_child_hook: signal_hook::flag::register succeeds, or fails and
\* the failure is logged and dropped.
RegisterChildHook(ok) ==
    /\ ~hooked
    /\ hooked' = ok
    /\ last' = NoOp
    /\ UNCHANGED <<flag, sigPending, cpc, sigs, notice>>
    /\ UNCHANGED regVars
    /\ UNCHANGED textVars
    /\ UNCHANGED toolVars

\* A SIGCHLD that no tracked child caused (another child of the process
\* stopped, continued or exited).
StraySignal ==
    /\ hooked
    /\ ~sigPending
    /\ sigPending' = TRUE
    /\ last' = NoOp
    /\ UNCHANGED <<flag, hooked, cpc, sigs, notice>>
    /\ UNCHANGED regVars
    /\ UNCHANGED textVars
    /\ UNCHANGED toolVars

\* The pending SIGCHLD is delivered: the registered handler runs.
SigHandler ==
    /\ hooked
    /\ sigPending
    /\ sigs < MaxSignals
    /\ sigPending' = FALSE
    /\ flag' = HandlerStore(flag)
    /\ sigs' = sigs + 1
    /\ notice' = [h \in Handles |-> IF notice[h] = "raised" THEN "delivered" ELSE notice[h]]
    /\ last' = Op("sigchld", None, None, <<>>, flag)
    /\ UNCHANGED <<hooked, cpc>>
    /\ UNCHANGED regVars
    /\ UNCHANGED textVars
    /\ UNCHANGED toolVars

\* Whether a reap of the consumer's registry settles the exit of h: the reap
\* removes h, or its check of h fails.
Settled(h) ==
    /\ h \in Held(reg[Tracked])
    /\ h \notin Held(ReapMap(reg[Tracked])) \/ TryWait(h) = "err"

\* The consumer reads the flag; on true it goes on to clear it.
ConsumerPoll ==
    /\ cpc = "poll"
    /\ cpc' = IF flag THEN "clear" ELSE "poll"
    /\ last' = Op("poll", None, None, <<>>, flag)
    /\ UNCHANGED <<flag, hooked, sigPending, sigs, notice>>
    /\ UNCHANGED regVars
    /\ UNCHANGED textVars
    /\ UNCHANGED toolVars

\* The consumer clears the flag.
ConsumerClear ==
    /\ cpc = "clear"
    /\ flag' = FALSE
    /\ sigs' = 0
    /\ cpc' = "reap"
    /\ last' = Op("clear", None, None, <<>>, flag)
    /\ UNCHANGED <<hooked, sigPending, notice>>
    /\ UNCHANGED <<proc, pid, waited, queryFails, free, reg>>
    /\ UNCHANGED textVars
    /\ UNCHANGED toolVars

\* The consumer reaps the registry, then polls again.
ConsumerReap ==
    /\ cpc = "reap"
    /\ ReapStep(Tracked)
    /\ cpc' = "poll"
    /\ notice' = [h \in Handles |-> IF Settled(h) THEN "none" ELSE notice[h]]
    /\ UNCHANGED <<flag, hooked, sigPending, sigs>>
    /\ UNCHANGED textVars
    /\ UNCHANGED toolVars

FlagNext ==
    \/ \E ok \in BOOLEAN : RegisterChildHook(ok)
    \/ \E p \in Pids : Spawn(p)
    \/ \E h \in Handles : Insert(Tracked, h)
    \/ \E h \in Handles : Exit(h)
    \/ \E h \in Handles : QueryBreaks(h)
    \/ StraySignal
    \/ SigHandler
    \/ ConsumerPoll
    \/ ConsumerClear
    \/ ConsumerReap

SpecFlag == Init /\ [][FlagNext]_vars

\* C7: the flag is true exactly when the handler has run since the consumer
\* last cleared it: only the handler sets it, the handler never clears it,
\* any number of handler runs leave one indication that a single clear
\* resets, and a consumer read after a handler run returns true until the
\* next clear.
C7_FlagSetOnlyByHandler ==
    /\ flag = (sigs > 0)
    /\ last.op = "sigchld" => flag
    /\ last.op = "clear" => ~flag
    /\ last.op = "poll" => last.ret = (sigs > 0)

\* The handler ran more than once before the consumer read the flag as true.
C7_Witness ==
    /\ last.op = "poll"
    /\ last.ret
    /\ sigs > 1

\* The consumer and the delivery of signals are scheduled fairly: a pending
\* signal is delivered, and the consumer takes the next step of its loop.
SpecFlagFair ==
    /\ SpecFlag
    /\ WF_vars(SigHandler)
    /\ WF_vars(ConsumerPoll)
    /\ WF_vars(ConsumerClear)
    /\ WF_vars(ConsumerReap)

\* h exited while the consumer's registry tracked it and the handler was
\* registered, and no reap has settled that exit yet.
Owed(h) == h \in Held(reg[Tracked]) /\ notice[h] # "none"

\* Whenever the signal of a tracked child's exit has been delivered and no
\* reap has settled the exit, the flag is true or the consumer has cleared it
\* and has its reap still to do.
NoExitMissed ==
    \A h \in Handles :
        (h \in Held(reg[Tracked]) /\ notice[h] = "delivered") => (flag \/ cpc = "reap")

\* C18: with a consumer that polls the flag and, on true, clears it and then
\* reaps, no termination is lost. Under fair scheduling every child that
\* exits while it is tracked and the handler is registered is eventually
\* removed from the registry, unless the status check of a reap fails for it;
\* and whenever such a child's signal has been delivered, the flag is true or
\* a reap that follows the clear is still to come.
C18_NoTerminationLost ==
    /\ []NoExitMissed
    /\ \A h \in Handles : Owed(h) ~> ~Owed(h)

\* Two tracked children have exited, the handler has run for both, and the
\* consumer has cleared the flag and not reaped yet.
C18_Witness ==
    /\ cpc = "reap"
    /\ ~flag
    /\ Cardinality({h \in Held(reg[Tracked]) : notice[h] = "delivered"}) = 2

----------------------------------------------------------------------------
(***************************************************************************)
(* parse_desktop_file on every text of at most MaxTextLen symbols.         *)
(***************************************************************************)
\* The symbols of the texts the parser is run on, and these texts.
MaxTextLen == 6
ParseChars == {"k", "=", "#", " ", LF}
ParseTexts == UNION {[1..n -> ParseChars] : n \in 0..MaxTextLen}

\* parse_desktop_file is called on the one file at hand.
ParseFile ==
    /\ bpc = "parse"
    /\ parsed' = ParseDesktopFile(files[1])
    /\ bpc' = "parsed"
    /\ UNCHANGED <<files, listing, idx, outcome>>
    /\ UNCHANGED <<regVars, last, flagVars>>
    /\ UNCHANGED toolVars

ParseInit ==
    /\ RegInit
    /\ FlagInit
    /\ files \in {<<[open |-> TRUE, text |-> t]>> : t \in ParseTexts} \cup {<<Unreadable>>}
    /\ parsed = NotParsed
    /\ listing = "ok"
    /\ bpc = "parse"
    /\ idx = 0
    /\ outcome = <<>>
    /\ ToolIdle

SpecParse == ParseInit /\ [][ParseFile]_vars

\* The lines of the file at hand, and those that insert an entry.
LinesAtHand == ReadLines(files[1].text)
IsEntryLine(raw) ==
    /\ Trim(raw) # <<>>
    /\ Head(Trim(raw)) \notin {"#", "="}
EntryLines == {i \in 1..Len(LinesAtHand) : IsEntryLine(LinesAtHand[i])}
LineKey(i) == SplitKey(Trim(LinesAtHand[i]))
LineValue(i) == SplitValue(Trim(LinesAtHand[i]))
LastOccurrence(k) ==
    CHOOSE i \in EntryLines :
        LineKey(i) = k /\ \A j \in EntryLines : LineKey(j) = k => j <= i

\* C10: the parsed map has one entry per distinct key of the text, and maps a
\* key that occurs on more than one line to the value of its last occurrence.
C10_LastOccurrenceWins ==
    (bpc = "parsed" /\ files[1].open) =>
        /\ parsed.ok
        /\ DOMAIN parsed.entries = {LineKey(i) : i \in EntryLines}
        /\ \A k \in DOMAIN parsed.entries :
            parsed.entries[k] = LineValue(LastOccurrence(k))

\* A key occurred on two lines with different values.
C10_Witness ==
    /\ bpc = "parsed"
    /\ files[1].open
    /\ \E i, j \in EntryLines :
        /\ i < j
        /\ LineKey(i) = LineKey(j)
        /\ LineValue(i) # LineValue(j)
        /\ parsed.entries[LineKey(i)] = LineValue(j)

\* What a trimmed line t stands for: t = key, or t = key \o "=" \o value
\* where key holds no '='.
HasEq(t) == \E i \in 1..Len(t) : t[i] = "="
KeyPart(t) ==
    IF ~HasEq(t) THEN t
    ELSE CHOOSE k \in {SubSeq(t, 1, n) : n \in 0..(Len(t) - 1)} :
            /\ t[Len(k) + 1] = "="
            /\ \A i \in 1..Len(k) : k[i] # "="
ValuePart(t) ==
    IF ~HasEq(t) THEN <<>> ELSE SubSeq(t, Len(KeyPart(t)) + 2, Len(t))

\* The trimmed line i of the file at hand; the lines that are neither empty
\* nor a comment and whose key part is not empty; those among them that no
\* later line overwrites.
TrimmedLine(i) == Trim(LinesAtHand[i])
Producing ==
    {i \in 1..Len(LinesAtHand) :
        /\ TrimmedLine(i) # <<>>
        /\ TrimmedLine(i)[1] # "#"
        /\ KeyPart(TrimmedLine(i)) # <<>>}
Standing ==
    {i \in Producing :
        \A j \in Producing :
            KeyPart(TrimmedLine(j)) = KeyPart(TrimmedLine(i)) => j <= i}

\* C11: an empty line, a comment line and a line with an empty key part
\* produce no entry; every other line produces the entry of its key part,
\* whose value is all that follows the first '=' (later '=' included), or
\* the empty value under the whole trimmed line when the line has no '='.
C11_LineToEntry ==
    (bpc = "parsed" /\ files[1].open) =>
        /\ DOMAIN parsed.entries = {KeyPart(TrimmedLine(i)) : i \in Producing}
        /\ \A i \in Standing :
            LET t == TrimmedLine(i) IN
            /\ parsed.entries[KeyPart(t)] = ValuePart(t)
            /\ HasEq(t) => KeyPart(t) \o <<"=">> \o parsed.entries[KeyPart(t)] = t
            /\ ~HasEq(t) => KeyPart(t) = t /\ parsed.entries[t] = <<>>

\* A line with surrounding blanks produced a value that holds an '=', next to
\* a comment line that produced nothing.
C11_Witness ==
    /\ bpc = "parsed"
    /\ files[1].open
    /\ \E i \in Standing :
        /\ HasEq(parsed.entries[KeyPart(TrimmedLine(i))])
        /\ TrimmedLine(i) # LinesAtHand[i]
    /\ \E i \in 1..Len(LinesAtHand) :
        TrimmedLine(i) # <<>> /\ TrimmedLine(i)[1] = "#" /\ i \notin Producing

----------------------------------------------------------------------------
(***************************************************************************)
(* parse_desktop_file on files that hold lines the Lines iterator yields   *)
(* as Err: a line that is no valid UTF-8, or a read that failed.           *)
(***************************************************************************)
ReadChars == {"k", "=", LF, BadByte}
ReadTexts == UNION {[1..n -> ReadChars] : n \in 0..MaxTextLen}

ReadInit ==
    /\ RegInit
    /\ FlagInit
    /\ files \in {<<[open |-> TRUE, text |-> t]>> : t \in ReadTexts} \cup {<<Unreadable>>}
    /\ parsed = NotParsed
    /\ listing = "ok"
    /\ bpc = "parse"
    /\ idx = 0
    /\ outcome = <<>>
    /\ ToolIdle

SpecRead == ReadInit /\ [][ParseFile]_vars

\* The lines of the file at hand that the iterator yields as Err.
FailedLines == {i \in 1..Len(LinesAtHand) : ~DecodeOk(LinesAtHand[i])}

\* C12: when a line of the file cannot be decoded or read, parsing the file
\* fails as a whole and returns no entry map.
C12_ReadFailureFailsFile ==
    (bpc = "parsed" /\ files[1].open /\ FailedLines # {}) => ~parsed.ok

----------------------------------------------------------------------------
(***************************************************************************)
(* sanitize_exec and the shell, over every Exec value of a bounded length. *)
(***************************************************************************)
MaxExecLen == 5
ExecChars == {"f", "%", DQuote, " "}
ExecTexts == UNION {[1..n -> ExecChars] : n \in 0..MaxExecLen}

\* Command::new("sh").arg("-c").arg(sanitize_exec(exec)): the shell runs what
\* the command substitution leaves.
SanitizeAndRun ==
    /\ ran.status = "idle"
    /\ ran' = CommandSubstitution(SanitizeExec(execValue))
    /\ UNCHANGED <<execValue, dir, listed, theme, themeRes>>
    /\ UNCHANGED <<regVars, last, flagVars, textVars>>

ExecInit ==
    /\ RegInit
    /\ FlagInit
    /\ TextIdle
    /\ execValue \in ExecTexts
    /\ ran = NotRun
    /\ dir = NoDir
    /\ listed = NotListed
    /\ theme = NoTheme
    /\ themeRes = NotBooted

SpecExec == ExecInit /\ [][SanitizeAndRun]_vars

\* The value without any '%' and the character after it.
RECURSIVE WithoutFieldCodes(_)
WithoutFieldCodes(s) ==
    IF s = <<>> THEN <<>>
    ELSE IF Head(s) = "%" /\ Len(s) >= 2 THEN WithoutFieldCodes(Tail(Tail(s)))
    ELSE <<Head(s)>> \o WithoutFieldCodes(Tail(s))

\* The value without one leading and one trailing double quote.
WithoutOuterQuotes(s) ==
    LET a == IF s # <<>> /\ Head(s) = DQuote THEN Tail(s) ELSE s
    IN  IF a # <<>> /\ a[Len(a)] = DQuote THEN SubSeq(a, 1, Len(a) - 1) ELSE a

\* C13: for every Exec value, the command text the shell runs is the value
\* with every '%' and the character after it removed, all occurrences, and
\* with one leading and one trailing double quote stripped.
C13_AllFieldCodesRemoved ==
    ran.status # "idle" =>
        /\ ran.status = "ran"
        /\ ran.text = WithoutOuterQuotes(WithoutFieldCodes(execValue))

----------------------------------------------------------------------------
(***************************************************************************)
(* list_desktop_files over every small directory.                          *)
(***************************************************************************)
MaxEntries == 3

\* What an entry of the directory can be: kind is what is_file and is_dir say
\* of its path, ext what extension says, ok whether read_dir yields it without
\* an error, inner whether a directory holds a regular file named x.desktop.
Exts == {DesktopExt, "txt", "none"}
FileEntries == [kind : {"file"}, ext : Exts, ok : BOOLEAN, inner : {FALSE}]
SubdirEntries == [kind : {"dir"}, ext : Exts, ok : BOOLEAN, inner : BOOLEAN]
Dirs ==
    {[kind |-> k, readable |-> TRUE, entries |-> <<>>] : k \in {"missing", "file"}}
        \cup [kind : {"dir"}, readable : BOOLEAN,
              entries : UNION {[1..n -> FileEntries \cup SubdirEntries] : n \in 0..MaxEntries}]

\* A call of list_desktop_files(dir).
ListDir ==
    /\ listed.status = "idle"
    /\ listed' = ListDesktopFiles(dir)
    /\ UNCHANGED <<execValue, ran, dir, theme, themeRes>>
    /\ UNCHANGED <<regVars, last, flagVars, textVars>>

ScanInit ==
    /\ RegInit
    /\ FlagInit
    /\ TextIdle
    /\ execValue = <<>>
    /\ ran = NotRun
    /\ dir \in Dirs
    /\ listed = NotListed
    /\ theme = NoTheme
    /\ themeRes = NotBooted

SpecScan == ScanInit /\ [][ListDir]_vars

\* The regular files directly inside the directory whose extension is "desktop".
DesktopFilesOf(d) ==
    {<<i>> : i \in {j \in 1..Len(d.entries) :
                       d.entries[j].kind = "file" /\ d.entries[j].ext = DesktopExt}}

\* The paths of a list, as a set.
PathSet(l) == {l[i] : i \in 1..Len(l)}

\* C14: list_desktop_files returns exactly the regular files directly inside
\* the directory whose extension is "desktop", each once; a directory named
\* with the extension, a file with another or no extension and a file inside
\* a subdirectory are not returned; a path that does not exist or is not a
\* directory gives an empty list and no error; a directory that is read
\* without an error gives no error.
C14_ListsDesktopFiles ==
    listed.status # "idle" =>
        /\ listed.status = "ok" =>
            /\ PathSet(listed.paths) = DesktopFilesOf(dir)
            /\ Len(listed.paths) = Cardinality(DesktopFilesOf(dir))
        /\ dir.kind # "dir" => listed = [status |-> "ok", paths |-> <<>>]
        /\ (dir.kind = "dir" /\ dir.readable /\ \A i \in 1..Len(dir.entries) : dir.entries[i].ok)
              => listed.status = "ok"

\* A directory with a.desktop, b.txt and a subdirectory c.desktop that holds a
\* descriptor has been listed: exactly a.desktop is returned.
C14_Witness ==
    /\ listed.status = "ok"
    /\ Len(dir.entries) = 3
    /\ dir.entries[1] = [kind |-> "file", ext |-> DesktopExt, ok |-> TRUE, inner |-> FALSE]
    /\ dir.entries[2] = [kind |-> "file", ext |-> "txt", ok |-> TRUE, inner |-> FALSE]
    /\ dir.entries[3] = [kind |-> "dir", ext |-> DesktopExt, ok |-> TRUE, inner |-> TRUE]
    /\ listed.paths = <<<<1>>>>

----------------------------------------------------------------------------
(***************************************************************************)
(* Nanny::boot_current_theme, among processes that start and exit.         *)
(***************************************************************************)
\* What boot_current_theme can find: whether the configuration directory can
\* be had, what themes/current/up is, whether spawning the script succeeds.
Themes == [configDir : BOOLEAN, up : {"missing", "file", "dir"}, spawn : BOOLEAN]

\* A call of boot_current_theme; the process it spawns gets identifier p.
BootCurrentTheme(p) ==
    /\ LET b == BootCurrentThemePlan(theme) IN
       IF b.spawn /\ theme.spawn
       THEN \E h \in Handles :
               /\ proc[h] = "unspawned"
               /\ \A g \in Handles : g < h => proc[g] # "unspawned"
               /\ PidAvailable(p)
               /\ proc' = [proc EXCEPT ![h] = "running"]
               /\ pid' = [pid EXCEPT ![h] = p]
               /\ free' = free \cup {h}
               /\ themeRes' = [status |-> "some", child |-> h, command |-> b.command]
       ELSE /\ themeRes' = [status |-> IF b.spawn THEN "err" ELSE b.status,
                            child |-> None, command |-> b.command]
            /\ UNCHANGED <<proc, pid, free>>
    /\ last' = Op("boot_current_theme", None, None, <<>>, FALSE)
    /\ UNCHANGED <<waited, queryFails, reg>>
    /\ UNCHANGED <<execValue, ran, dir, listed, theme>>
    /\ UNCHANGED flagVars
    /\ UNCHANGED textVars

ThemeInit ==
    /\ RegInit
    /\ FlagInit
    /\ TextIdle
    /\ execValue = <<>>
    /\ ran = NotRun
    /\ dir = NoDir
    /\ listed = NotListed
    /\ theme \in Themes
    /\ themeRes = NotBooted

ThemeNext ==
    \/ \E p \in Pids : BootCurrentTheme(p)
    \/ \E p \in Pids : Spawn(p)
    \/ \E h \in Handles : Exit(h)

SpecTheme == ThemeInit /\ [][ThemeNext]_vars

\* The processes that were started by the last operation.
NewlySpawned == {h \in Handles : last.preProc[h] = "unspawned" /\ proc[h] # "unspawned"}

\* C15: boot_current_theme has exactly three outcomes. With the configuration
\* directory at hand: when themes/current/up is not a regular file it returns
\* Ok(None) and spawns nothing; when it is one and the spawn succeeds it
\* returns the handle of exactly one newly spawned process. When the
\* configuration directory cannot be created or the spawn fails it returns an
\* error, no handle, and no process is started.
C15_ThreeOutcomes ==
    last.op = "boot_current_theme" =>
        /\ themeRes.status \in {"none", "some", "err"}
        /\ (theme.configDir /\ theme.up # "file") =>
              themeRes.status = "none" /\ themeRes.child = None /\ NewlySpawned = {}
        /\ (theme.configDir /\ theme.up = "file" /\ theme.spawn) =>
              /\ themeRes.status = "some"
              /\ themeRes.child \in Handles
              /\ NewlySpawned = {themeRes.child}
              /\ proc[themeRes.child] = "running"
        /\ (~theme.configDir \/ (theme.up = "file" /\ ~theme.spawn)) =>
              themeRes.status = "err" /\ themeRes.child = None /\ NewlySpawned = {}
        /\ \A h \in Handles \ NewlySpawned : proc[h] = last.preProc[h]

\* boot_current_theme has found no script, with the configuration directory
\* at hand and a process already running, and has returned Ok(None).
C15_Witness ==
    /\ last.op = "boot_current_theme"
    /\ theme.configDir
    /\ theme.up = "missing"
    /\ themeRes.status = "none"
    /\ \E h \in Handles : proc[h] = "running"

----------------------------------------------------------------------------
(***************************************************************************)
(* Nanny::autostart over the files list_desktop_files returned.            *)
(***************************************************************************)
\* The lines the descriptors of the batch are made of, and the texts: every
\* arrangement of some of these lines.
DescriptorLines ==
    {<<"Hidden", "=", "true">>, <<"Hidden", "=", "false">>, <<"Exec", "=", "x">>}

RECURSIVE JoinLines(_)
JoinLines(ls) ==
    IF ls = <<>> THEN <<>>
    ELSE IF Len(ls) = 1 THEN Head(ls)
    ELSE Head(ls) \o <<LF>> \o JoinLines(Tail(ls))

BootTexts == {JoinLines(ls) : ls \in SeqsOf(DescriptorLines, Cardinality(DescriptorLines))}
BootFiles == {[open |-> TRUE, text |-> t] : t \in BootTexts} \cup {Unreadable}

\* home_dir() is None, or list_desktop_files failed: unwrap_or_default.
AutostartDefault ==
    /\ bpc = "boot"
    /\ listing # "ok"
    /\ reg' = [reg EXCEPT ![Tracked] = EmptyMap]
    /\ bpc' = "done"
    /\ last' = NoOp
    /\ UNCHANGED <<proc, pid, waited, queryFails, free>>
    /\ UNCHANGED <<files, parsed, listing, idx, outcome>>
    /\ UNCHANGED flagVars
    /\ UNCHANGED toolVars

\* One item of the filter_map: boot_desktop_file on files[idx]; when it
\* reaches Command::spawn, the spawn succeeds (ok) with process id p or fails.
BootFile(ok, p) ==
    /\ bpc = "boot"
    /\ listing = "ok"
    /\ idx <= Len(files)
    /\ LET b == BootDesktopFile(files[idx]) IN
       IF b.spawn /\ ok
       THEN \E h \in Handles :
               /\ proc[h] = "unspawned"
               /\ \A g \in Handles : g < h => proc[g] # "unspawned"
               /\ PidAvailable(p)
               /\ proc' = [proc EXCEPT ![h] = "running"]
               /\ pid' = [pid EXCEPT ![h] = p]
               /\ free' = free \cup {h}
               /\ outcome' = Append(outcome,
                     [attempted |-> TRUE, spawnOk |-> TRUE, child |-> h,
                      command |-> b.command])
               /\ idx' = AutostartAdvance(idx, TRUE)
       ELSE /\ outcome' = Append(outcome,
                     [attempted |-> b.spawn, spawnOk |-> ok, child |-> None,
                      command |-> b.command])
            /\ idx' = AutostartAdvance(idx, FALSE)
            /\ UNCHANGED <<proc, pid, free>>
    /\ last' = NoOp
    /\ UNCHANGED <<waited, queryFails, reg>>
    /\ UNCHANGED <<files, parsed, listing, bpc>>
    /\ UNCHANGED flagVars
    /\ UNCHANGED toolVars

\* collect::<Children>() once the iterator is exhausted.
AutostartCollect ==
    /\ bpc = "boot"
    /\ listing = "ok"
    /\ idx > Len(files)
    /\ reg' = [reg EXCEPT ![Tracked] = FromIterMap(Yielded(outcome))]
    /\ free' = free \ {Yielded(outcome)[i] : i \in 1..Len(Yielded(outcome))}
    /\ bpc' = "done"
    /\ last' = Op("from_iter", Tracked, None, Yielded(outcome), FALSE)
    /\ UNCHANGED <<proc, pid, waited, queryFails>>
    /\ UNCHANGED <<files, parsed, listing, idx, outcome>>
    /\ UNCHANGED flagVars
    /\ UNCHANGED toolVars

BootInit ==
    /\ RegInit
    /\ FlagInit
    /\ listing \in {"nohome", "err", "ok"}
    /\ files \in UNION {[1..n -> BootFiles] : n \in 0..NumHandles}
    /\ listing # "ok" => files = <<>>
    /\ parsed = NotParsed
    /\ bpc = "boot"
    /\ idx = 1
    /\ outcome = <<>>
    /\ ToolIdle

BootNext ==
    \/ AutostartDefault
    \/ \E ok \in BOOLEAN : \E p \in Pids : BootFile(ok, p)
    \/ AutostartCollect

SpecBoot == BootInit /\ [][BootNext]_vars

\* Whether the entry map of a file calls for a spawn: the file parses, the
\* map does not map Hidden to "true" and it has an Exec key.
HasKey(file, k) == k \in DOMAIN ParseDesktopFile(file).entries
SpawnExpected(file) ==
    /\ ParseDesktopFile(file).ok
    /\ ~(HasKey(file, HiddenKey) /\ ParseDesktopFile(file).entries[HiddenKey] = TrueValue)
    /\ HasKey(file, ExecKey)

\* C8: a spawn is attempted for a file if and only if the file parses, its
\* entry map does not map Hidden to exactly "true" and the map has an Exec
\* key; Hidden=true excludes a file that has Exec, and a file without Exec
\* is excluded whatever else it holds.
C8_SpawnIffEligible ==
    \A f \in 1..Len(outcome) :
        /\ outcome[f].attempted = SpawnExpected(files[f])
        /\ outcome[f].attempted => outcome[f].command.program = "sh"
        /\ ~outcome[f].attempted => outcome[f].child = None

\* A file with Hidden=true and an Exec key was booted and not spawned, and a
\* file with Hidden=false and an Exec key was.
C8_Witness ==
    /\ Len(outcome) = 2
    /\ HasKey(files[1], ExecKey) /\ HasKey(files[1], HiddenKey)
    /\ ~outcome[1].attempted
    /\ HasKey(files[2], ExecKey) /\ HasKey(files[2], HiddenKey)
    /\ outcome[2].attempted

\* C16: every process this module spawns, the shell of an autostart descriptor
\* and the theme script alike, is started with standard input and standard
\* output redirected to the null device.
C16_SpawnsSilenced ==
    /\ \A f \in 1..Len(outcome) :
          outcome[f].child # None =>
              outcome[f].command.stdin = "null" /\ outcome[f].command.stdout = "null"
    /\ themeRes.child # None =>
          themeRes.command.stdin = "null" /\ themeRes.command.stdout = "null"

\* The files of the batch that were launched.
Launched == {f \in 1..Len(outcome) : outcome[f].child # None}

\* C9: autostart returns a registry holding exactly one handle for every
\* file that was launched and none else; every file of the batch is booted,
\* and launched exactly when its own map calls for a spawn and its own spawn
\* succeeds, whatever happened to the other files; without files the
\* registry is empty.
C9_BestEffortBatch ==
    bpc = "done" =>
        /\ Len(outcome) = Len(files)
        /\ \A f \in 1..Len(files) :
            (f \in Launched) = (SpawnExpected(files[f]) /\ outcome[f].spawnOk)
        /\ Held(reg[Tracked]) = {outcome[f].child : f \in Launched}
        /\ ChildrenLen(reg[Tracked]) = Cardinality(Launched)
        /\ \A f, g \in Launched : f # g => outcome[f].child # outcome[g].child
        /\ files = <<>> => IsEmpty(reg[Tracked])

\* The first file of a batch failed and the second was launched and is in
\* the registry returned.
C9_Witness ==
    /\ bpc = "done"
    /\ Len(files) = 2
    /\ Launched = {2}
    /\ Held(reg[Tracked]) = {outcome[2].child}

----------------------------------------------------------------------------
(***************************************************************************)
(* The properties of Children, stated on the state an operation produced,  *)
(* against the registries and processes recorded when it was called.       *)
(***************************************************************************)
\* The process ids a map tracked, read off the Childs it holds.
TrackedIds(m) == {pid[h] : h \in Held(m)}

\* Every registry other than r is as it was before the last operation.
OthersUntouched(r) == \A q \in Regs : q # r => reg[q] = last.preReg[q]

\* C1: insert returns true exactly when no entry with the handle's process id
\* was tracked before the call; then len grows by one; otherwise it returns
\* false, the new handle replaces the old one under that id and len is
\* unchanged; the entries with other ids are untouched in both cases.
C1_InsertContract ==
    last.op = "insert" =>
        LET h == last.hs[1]
            pre == last.preReg[last.r]
            post == reg[last.r]
        IN  /\ last.ret = (pid[h] \notin TrackedIds(pre))
            /\ last.ret => ChildrenLen(post) = ChildrenLen(pre) + 1
            /\ ~last.ret => ChildrenLen(post) = ChildrenLen(pre)
            /\ post[pid[h]] = h
            /\ \A p \in Pids : p # pid[h] => post[p] = pre[p]
            /\ OthersUntouched(last.r)

\* An insert met an entry with the same process id and returned false.
C1_Witness ==
    /\ last.op = "insert"
    /\ ~last.ret
    /\ last.preReg[last.r][pid[last.hs[1]]] # last.hs[1]

\* C2: after reap the registry holds exactly the entries it held before whose
\* status check did not report an exit: a handle whose process has exited and
\* whose check succeeds is removed, a handle whose process is running is kept
\* under the same id, and no entry is added.
C2_ReapExact ==
    last.op = "reap" =>
        LET pre == last.preReg[last.r]
            post == reg[last.r]
        IN  /\ \A p \in Pids :
                post[p] = IF pre[p] # None /\ last.tw[pre[p]] # "exited"
                          THEN pre[p] ELSE None
            /\ \A p \in Pids :
                (pre[p] # None /\ last.preProc[pre[p]] = "exited"
                    /\ pre[p] \notin queryFails) => post[p] = None
            /\ \A p \in Pids :
                (pre[p] # None /\ last.preProc[pre[p]] = "running") => post[p] = pre[p]
            /\ Held(post) \subseteq Held(pre)
            /\ OthersUntouched(last.r)

\* A reap removed one entry and kept another.
C2_Witness ==
    /\ last.op = "reap"
    /\ \E p, q \in Pids :
        /\ last.preReg[last.r][p] # None /\ reg[last.r][p] = None
        /\ last.preReg[last.r][q] # None /\ reg[last.r][q] = last.preReg[last.r][q]
        /\ proc[reg[last.r][q]] = "running"

\* C3: a handle whose status check fails during reap is retained, whether or
\* not its process has exited (so it is retained by every reap during which
\* its check fails).
C3_RetainOnError ==
    last.op = "reap" =>
        \A p \in Pids :
            LET h == last.preReg[last.r][p] IN
            (h # None /\ last.tw[h] = "err") => reg[last.r][p] = h

\* A reap kept a handle whose process had exited, because its check failed.
C3_Witness ==
    /\ last.op = "reap"
    /\ \E p \in Pids :
        LET h == last.preReg[last.r][p] IN
        /\ h # None
        /\ last.tw[h] = "err"
        /\ last.preProc[h] = "exited"
        /\ reg[last.r][p] = h

\* C4: after a.merge(b) the ids a tracks are the union of the ids a and b
\* tracked before; under an id both tracked a holds b's handle; under an id
\* only a tracked a's handle is unchanged.
C4_MergeUnion ==
    last.op = "merge" =>
        LET a == last.preReg[last.r]
            b == last.preReg[last.r2]
            post == reg[last.r]
        IN  /\ TrackedIds(post) = TrackedIds(a) \cup TrackedIds(b)
            /\ \A p \in Pids :
                /\ (a[p] # None /\ b[p] # None) => post[p] = b[p]
                /\ (a[p] # None /\ b[p] = None) => post[p] = a[p]
                /\ (a[p] = None /\ b[p] # None) => post[p] = b[p]

\* A merge met an id tracked by both registries, under different handles.
C4_Witness ==
    /\ last.op = "merge"
    /\ \E p \in Pids :
        /\ last.preReg[last.r][p] # None
        /\ last.preReg[last.r2][p] # None
        /\ last.preReg[last.r][p] # last.preReg[last.r2][p]

\* The entries, over all registries, that hold the Child h.
EntriesHolding(h) == {e \in Regs \X Pids : reg[e[1]][e[2]] = h}

\* C5: every process handle is held by at most one entry of at most one
\* registry (and by no entry while the caller holds it); merge leaves the
\* source registry holding nothing.
C5_ExclusiveOwnership ==
    /\ \A h \in Handles : Cardinality(EntriesHolding(h)) <= 1
    /\ \A h \in free : EntriesHolding(h) = {}
    /\ last.op = "merge" => IsEmpty(reg[last.r2])

\* A merge moved at least one entry out of a registry.
C5_Witness ==
    /\ last.op = "merge"
    /\ ~IsEmpty(last.preReg[last.r2])
    /\ Held(last.preReg[last.r2]) \subseteq Held(reg[last.r])

RegistryOps == {"from_iter", "insert", "extend", "merge", "reap", "discard"}

\* C6: no registry operation terminates a process: the running/exited state
\* of every process is as it was before the operation, also for the handles
\* the operation overwrote, removed or discarded.
C6_NeverKills ==
    last.op \in RegistryOps => proc = last.preProc

\* A registry holding a running process was discarded, and the process runs on.
C6_Witness ==
    /\ last.op = "discard"
    /\ \E h \in Held(last.preReg[last.r]) : proc[h] = "running" /\ h \notin Owned

\* The handles registry r tracked when the last operation was called.
HeldBefore(r) == Held(last.preReg[r])

\* C17: reap never waits for a child to exit. It can complete from every
\* state, whatever the tracked processes are doing, and when it has completed
\* every tracked process that was running when it was called is still running.
C17_ReapNeverWaits ==
    /\ \A r \in Regs : ENABLED Reap(r)
    /\ last.op = "reap" =>
          \A h \in HeldBefore(last.r) : last.preProc[h] = "running" => proc[h] = "running"

\* reap has completed on a registry of two processes that are both running:
\* it has checked both and removed none.
C17_Witness ==
    /\ last.op = "reap"
    /\ ChildrenLen(last.preReg[last.r]) = 2
    /\ \A h \in HeldBefore(last.r) : last.tw[h] = "running" /\ proc[h] = "running"
    /\ reg[last.r] = last.preReg[last.r]

\* C19: reap is idempotent when no process changes state in between: in the
\* state a reap has left, with every status as that reap saw it, another reap
\* would leave the registry as it is; and a reap never makes len greater.
C19_ReapIdempotent ==
    last.op = "reap" =>
        /\ ReapMap(reg[last.r]) = reg[last.r]
        /\ ChildrenLen(reg[last.r]) <= ChildrenLen(last.preReg[last.r])

\* reap has removed both children of a registry, both exited.
C19_Witness ==
    /\ last.op = "reap"
    /\ ChildrenLen(last.preReg[last.r]) = 2
    /\ IsEmpty(reg[last.r])

====
